---- MODULE Spec2Model ----
(***************************************************************************)
(* The check-in lifecycle of the Merlin agent (src/agent/agent.go):        *)
(* construction from a string configuration (New), and the Run loop with   *)
(* its kill-date check, handshake, status check-in, retry ceiling and      *)
(* jittered sleep.                                                         *)
(*                                                                         *)
(* Go's int64 and time.Duration values are kept at their width.  TLC's own *)
(* integers are 32 bits wide, so an integer of the program is a vector of  *)
(* 16 limbs in base 256, least significant first, in two's complement:     *)
(* wide enough to hold every exact intermediate result, and Wrap64 cuts a  *)
(* value to the 64 bits the program keeps.  A float64 is a mantissa and an  *)
(* exponent, rounded as IEEE 754 rounds.  A string of the configuration is *)
(* a sequence of one-character strings.                                    *)
(*                                                                         *)
(* TLC evaluates an operator's argument anew at every use, so an operator  *)
(* that reads a wide integer limb by limb first binds it (x \in {arg}).    *)
(***************************************************************************)
EXTENDS Integers, Sequences, FiniteSets, TLC

(***************************************************************************)
(* Wide integers                                                           *)
(***************************************************************************)
Limbs == 1..16

\* the limbs of f written out, so that a result is held as its 16 values and
\* not as the expression that yields them
Packed(f) ==
    <<f[1], f[2], f[3], f[4], f[5], f[6], f[7], f[8],
      f[9], f[10], f[11], f[12], f[13], f[14], f[15], f[16]>>

\* n >= 0, an integer of TLC, as a wide integer
NatZ(n) ==
    Packed([i \in Limbs |-> CASE i = 1 -> n % 256
                       [] i = 2 -> (n \div 256) % 256
                       [] i = 3 -> (n \div 65536) % 256
                       [] i = 4 -> (n \div 16777216) % 256
                       [] OTHER -> 0])

AddLimbs(a, b) ==
    LET c[i \in 0..16] == IF i = 0 THEN 0 ELSE (a[i] + b[i] + c[i - 1]) \div 256
    IN  Packed([i \in Limbs |-> (a[i] + b[i] + c[i - 1]) % 256])

ZAdd(x, y) == CHOOSE r \in {AddLimbs(a, b) : a \in {x}, b \in {y}} : TRUE

NotLimbs(a) == Packed([i \in Limbs |-> 255 - a[i]])

ZNeg(x) == CHOOSE r \in {AddLimbs(NotLimbs(a), NatZ(1)) : a \in {x}} : TRUE

ZSub(x, y) == ZAdd(x, ZNeg(y))

\* an integer of TLC, of either sign
Z(n) == IF n >= 0 THEN NatZ(n) ELSE ZNeg(NatZ(0 - n))

\* a * m + d for 0 <= m < 2^22 and 0 <= d < 2^22
MulAddLimbs(a, m, d) ==
    LET c[i \in 0..16] == IF i = 0 THEN d ELSE (a[i] * m + c[i - 1]) \div 256
    IN  Packed([i \in Limbs |-> (a[i] * m + c[i - 1]) % 256])

ZMulAdd(x, m, d) == CHOOSE r \in {MulAddLimbs(a, m, d) : a \in {x}} : TRUE

ZScale(x, m) == ZMulAdd(x, m, 0)

\* a \div d for a >= 0 and 0 < d < 2^22
DivLimbs(a, d) ==
    LET r[i \in 1..17] == IF i = 17 THEN 0 ELSE (r[i + 1] * 256 + a[i]) % d
    IN  Packed([i \in Limbs |-> (r[i + 1] * 256 + a[i]) \div d])

ZDiv(x, d) == CHOOSE r \in {DivLimbs(a, d) : a \in {x}} : TRUE

ZIsNeg(a) == a[16] >= 128

\* a < b as signed integers
LessLimbs(a, b) ==
    LET key(x, i) == IF i = 16 THEN (x[i] + 128) % 256 ELSE x[i]
        lt[i \in 0..16] ==
            IF i = 0 THEN FALSE
            ELSE IF key(a, i) # key(b, i) THEN key(a, i) < key(b, i)
            ELSE lt[i - 1]
    IN  lt[16]

ZLess(x, y) == \E a \in {x}, b \in {y} : LessLimbs(a, b)

ZLeq(x, y) == ~ZLess(y, x)

\* the value an int64 keeps of a (also a uint64 converted to int64): the low
\* 64 bits, sign-extended
WrapLimbs(a) ==
    Packed([i \in Limbs |-> IF i <= 8 THEN a[i] ELSE IF a[8] >= 128 THEN 255 ELSE 0])

Wrap64(x) == CHOOSE r \in {WrapLimbs(a) : a \in {x}} : TRUE

ZZero == NatZ(0)
MaxInt64 == [i \in Limbs |-> IF i < 8 THEN 255 ELSE IF i = 8 THEN 127 ELSE 0]
MinInt64 == [i \in Limbs |-> IF i < 8 THEN 0 ELSE IF i = 8 THEN 128 ELSE 255]
MaxUint64 == [i \in Limbs |-> IF i <= 8 THEN 255 ELSE 0]
TwoTo63 == [i \in Limbs |-> IF i = 8 THEN 128 ELSE 0]

\* the integer a sequence of decimal digits (0..9) writes
DecLimbs(ds) ==
    LET f[i \in 0..Len(ds)] ==
            IF i = 0 THEN ZZero ELSE ZMulAdd(f[i - 1], 10, ds[i])
    IN  f[Len(ds)]

DecZ(digits) == CHOOSE r \in {DecLimbs(ds) : ds \in {digits}} : TRUE

\* the limb i of a, 0 beyond the vector
LimbAt(a, i) == IF i \in Limbs THEN a[i] ELSE 0

\* a * 2^n for a >= 0 and n >= 0
ShlLimbs(a, n) ==
    LET q == n \div 8
        r == n % 8
    IN  Packed([i \in Limbs |-> (LimbAt(a, i - q) * 2^r
                            + (LimbAt(a, i - q - 1) * 2^r) \div 256) % 256])

ZShl(x, n) == CHOOSE r \in {ShlLimbs(a, n) : a \in {x}} : TRUE

\* a \div 2^n for a >= 0 and n >= 0
ShrLimbs(a, n) ==
    LET q == n \div 8
        r == n % 8
    IN  Packed([i \in Limbs |-> ((LimbAt(a, i + q) + 256 * LimbAt(a, i + q + 1)) \div 2^r) % 256])

ZShr(x, n) == CHOOSE r \in {ShrLimbs(a, n) : a \in {x}} : TRUE

\* the number of bits of a >= 0 (0 for 0)
BitLenLimbs(a) ==
    IF \A i \in Limbs : a[i] = 0 THEN 0
    ELSE LET h == CHOOSE i \in Limbs : a[i] # 0 /\ \A j \in Limbs : j > i => a[j] = 0
         IN  8 * (h - 1) + (CHOOSE n \in 1..8 : 2^(n - 1) <= a[h] /\ a[h] < 2^n)

BitLen(x) == CHOOSE n \in {BitLenLimbs(a) : a \in {x}} : TRUE

\* a * b for a, b >= 0
MulLimbs(a, b) ==
    LET col(k) ==
            LET f[i \in 0..k] == IF i = 0 THEN 0 ELSE f[i - 1] + a[i] * b[k + 1 - i]
            IN  f[k]
        c[k \in 0..16] == IF k = 0 THEN 0 ELSE (col(k) + c[k - 1]) \div 256
    IN  Packed([k \in Limbs |-> (col(k) + c[k - 1]) % 256])

ZMul(x, y) == CHOOSE r \in {MulLimbs(a, b) : a \in {x}, b \in {y}} : TRUE

TwoTo53 == [i \in Limbs |-> IF i = 7 THEN 32 ELSE 0]

\* the bit i (from 0) of a >= 0
BitAt(a, i) == (a[i \div 8 + 1] \div 2^(i % 8)) % 2

\* long division in base 2: one bit of the dividend brought down to the
\* quotient p.q and the remainder p.r
DivModBitOf(p, rem, den) ==
    IF ZLeq(den, rem) THEN [q |-> ZMulAdd(p.q, 2, 1), r |-> ZSub(rem, den)]
    ELSE [q |-> ZScale(p.q, 2), r |-> rem]

DivModBit(p, bit, den) ==
    CHOOSE r \in {DivModBitOf(p, rem, den) : rem \in {ZMulAdd(p.r, 2, bit)}} : TRUE

\* the bits hi down to lo of a brought down in this order: the upper half of
\* them, then the lower half
RECURSIVE DivModBits(_, _, _, _, _)
DivModBits(a, den, hi, lo, p) ==
    IF hi < lo THEN p
    ELSE IF hi = lo THEN DivModBit(p, BitAt(a, hi), den)
    ELSE CHOOSE r \in {DivModBits(a, den, (lo + hi) \div 2, lo, q) :
                         q \in {DivModBits(a, den, hi, (lo + hi) \div 2 + 1, p)}} : TRUE

\* the bits of a above the lowest n are below den: they are the first
\* remainder
DivModLimbs(a, den, n) ==
    DivModBits(a, den, n - 1, 0, [q |-> NatZ(0), r |-> ZShr(a, n)])

\* the quotient q and the remainder r of num by den, for num >= 0 and den > 0
ZDivMod(num, den) ==
    CHOOSE r \in {DivModLimbs(a, d, IF BitLen(a) < BitLen(d) THEN 0
                                    ELSE BitLen(a) - BitLen(d) + 1) :
                    a \in {num}, d \in {den}} : TRUE

(***************************************************************************)
(* Strings and the standard library's parsers                              *)
(***************************************************************************)
DigitChars == <<"0", "1", "2", "3", "4", "5", "6", "7", "8", "9">>

IsDigit(c) == \E i \in 1..10 : DigitChars[i] = c

DigitVal(c) == (CHOOSE i \in 1..10 : DigitChars[i] = c) - 1

\* strconv.ParseUint(s, 10, 64): one character consumed from the state p
ParseUintStep(p, c) ==
    IF p.err # "nil" THEN p
    ELSE IF ~IsDigit(c) THEN [n |-> ZZero, err |-> "syntax"]
    \* n >= cutoff, with cutoff = maxUint64/10 + 1: n*10 overflows
    ELSE IF ZLess(MaxUint64, ZScale(p.n, 10)) THEN [n |-> MaxUint64, err |-> "range"]
    \* n1 < n || n1 > maxVal: n*10 + d overflows
    ELSE IF ZLess(MaxUint64, ZMulAdd(p.n, 10, DigitVal(c)))
         THEN [n |-> MaxUint64, err |-> "range"]
    ELSE [n |-> ZMulAdd(p.n, 10, DigitVal(c)), err |-> "nil"]

ParseUintChars(s) ==
    LET f[i \in 0..Len(s)] ==
            IF i = 0 THEN [n |-> ZZero, err |-> "nil"]
            ELSE CHOOSE r \in {ParseUintStep(p, s[i]) : p \in {f[i - 1]}} : TRUE
    IN  IF s = <<>> THEN [n |-> ZZero, err |-> "syntax"] ELSE f[Len(s)]

ParseUint(str) == CHOOSE r \in {ParseUintChars(s) : s \in {str}} : TRUE

\* strconv.ParseInt's reading of ParseUint's result un as a signed value
ParseIntSigned(un, neg) ==
    IF un.err = "syntax" THEN [val |-> ZZero, err |-> "syntax"]
    \* !neg && un >= cutoff, with cutoff = 1 << 63
    ELSE IF ~neg /\ ZLeq(TwoTo63, un.n) THEN [val |-> MaxInt64, err |-> "range"]
    \* neg && un > cutoff
    ELSE IF neg /\ ZLess(TwoTo63, un.n) THEN [val |-> MinInt64, err |-> "range"]
    ELSE [val |-> IF neg THEN Wrap64(ZNeg(un.n)) ELSE Wrap64(un.n), err |-> "nil"]

\* strconv.ParseInt(s, 10, 64): the value returned and the error
ParseIntChars(s) ==
    IF s = <<>> THEN [val |-> ZZero, err |-> "syntax"]
    ELSE LET neg == s[1] = "-"
             body == IF s[1] \in {"+", "-"} THEN SubSeq(s, 2, Len(s)) ELSE s
         IN  CHOOSE r \in {ParseIntSigned(un, neg) : un \in {ParseUint(body)}} : TRUE

ParseInt(str) == CHOOSE r \in {ParseIntChars(s) : s \in {str}} : TRUE

\* strconv.Atoi on a 64-bit int: its fast path and ParseInt(s, 10, 0) agree
Atoi(str) == ParseInt(str)

\* the value a uint64 keeps of a >= 0: the low 64 bits
WrapU64Limbs(a) == Packed([i \in Limbs |-> IF i <= 8 THEN a[i] ELSE 0])

WrapU64(x) == CHOOSE r \in {WrapU64Limbs(a) : a \in {x}} : TRUE

\* the first position from i on that holds no digit (Len(s) + 1 if none)
DigitRunEnd(s, i) ==
    CHOOSE j \in i..(Len(s) + 1) :
        /\ j = Len(s) + 1 \/ ~IsDigit(s[j])
        /\ \A k \in i..(j - 1) : IsDigit(s[k])

\* the first position from i on that holds a digit or a period: the end of a
\* unit name
UnitEnd(s, i) ==
    CHOOSE j \in i..(Len(s) + 1) :
        /\ j = Len(s) + 1 \/ s[j] = "." \/ IsDigit(s[j])
        /\ \A k \in i..(j - 1) : ~(s[k] = "." \/ IsDigit(s[k]))

\* 1<<63 / 10 and (1<<63 - 1) / 10
TwoTo63Div10 == ZDiv(TwoTo63, 10)

\* time.leadingInt over the digits s[i..j-1]: one digit consumed
LeadingIntStep(p, c) ==
    IF p.err # "nil" THEN p
    ELSE IF ZLess(TwoTo63Div10, p.x) THEN [x |-> ZZero, err |-> "overflow"]
    ELSE IF ZLess(TwoTo63, ZMulAdd(p.x, 10, DigitVal(c)))
         THEN [x |-> ZZero, err |-> "overflow"]
    ELSE [x |-> ZMulAdd(p.x, 10, DigitVal(c)), err |-> "nil"]

\* the digits s[lo..hi] are consumed in order: the first half of them, then
\* the second half
RECURSIVE LeadingIntRun(_, _, _, _)
LeadingIntRun(s, lo, hi, p) ==
    IF lo > hi THEN p
    ELSE IF lo = hi THEN LeadingIntStep(p, s[lo])
    ELSE CHOOSE r \in {LeadingIntRun(s, (lo + hi) \div 2 + 1, hi, q) :
                         q \in {LeadingIntRun(s, lo, (lo + hi) \div 2, p)}} : TRUE

LeadingInt(s, i, j) == LeadingIntRun(s, i, j - 1, [x |-> ZZero, err |-> "nil"])

\* a float64 is [m, e], the number m * 2^e with a mantissa 0 <= m <= 2^53.
\* The floats of a duration lie between 10^-Len(s) and 2^64, so no exponent
\* leaves the normal range.  Float64Round(num, den) is the float64 nearest to
\* num / den, a tie to the even mantissa, for num, den > 0.  Its exponent is
\* e0 or e0 + 1 for e0 = bits(num) - bits(den) - 53: the one that leaves a
\* quotient below 2^53
Float64ScaledOne(num, e, q) == [q |-> q, r |-> ZSub(num, ZShl(q, e))]

Float64Scaled(num, den, e) ==
    IF den = NatZ(1) /\ e < 0 THEN [q |-> ZShl(num, 0 - e), r |-> NatZ(0)]
    ELSE IF den = NatZ(1)
         THEN CHOOSE r \in {Float64ScaledOne(num, e, q) : q \in {ZShr(num, e)}} : TRUE
    ELSE ZDivMod(IF e < 0 THEN ZShl(num, 0 - e) ELSE num, IF e > 0 THEN ZShl(den, e) ELSE den)

Float64RoundsUp(qr, den, e) ==
    \E twice \in {ZShl(qr.r, 1)}, d \in {IF e > 0 THEN ZShl(den, e) ELSE den} :
        ZLess(d, twice) \/ (twice = d /\ qr.q[1] % 2 = 1)

Float64RoundAt(qr, den, e) ==
    [m |-> IF Float64RoundsUp(qr, den, e) THEN ZAdd(qr.q, NatZ(1)) ELSE qr.q, e |-> e]

Float64RoundFrom(num, den, e0, qr) ==
    IF ZLess(qr.q, TwoTo53) THEN Float64RoundAt(qr, den, e0)
    ELSE CHOOSE r \in {Float64RoundAt(qr1, den, e0 + 1) :
                         qr1 \in {Float64Scaled(num, den, e0 + 1)}} : TRUE

Float64RoundOf(num, den, e0) ==
    CHOOSE r \in {Float64RoundFrom(num, den, e0, qr) :
                    qr \in {Float64Scaled(num, den, e0)}} : TRUE

Float64Round(num, den) ==
    CHOOSE r \in {Float64RoundOf(n, d, BitLen(n) - BitLen(d) - 53) :
                    n \in {num}, d \in {den}} : TRUE

\* float64(n) for an integer n > 0
Float64Of(n) == Float64Round(n, NatZ(1))

\* the float64 product x * y and quotient x / y of floats above 0
Float64Shift(x, e) == [m |-> x.m, e |-> x.e + e]

Float64Mul(x, y) ==
    CHOOSE r \in {Float64Shift(p, a.e + b.e) :
                    a \in {x}, b \in {y}, p \in {Float64Round(ZMul(x.m, y.m), NatZ(1))}} : TRUE

Float64Div(x, y) ==
    CHOOSE r \in {Float64Shift(p, a.e - b.e) :
                    a \in {x}, b \in {y}, p \in {Float64Round(x.m, y.m)}} : TRUE

\* uint64(x) for a float64 x >= 0 below 2^64: the fraction is cut off
Float64ToUint64(x) == IF x.e >= 0 THEN ZShl(x.m, x.e) ELSE ZShr(x.m, 0 - x.e)

Float64One == [m |-> NatZ(1), e |-> 0]
Float64Ten == [m |-> NatZ(10), e |-> 0]

\* time.leadingFraction over the digits s[i..j-1]: x, and scale, the float64
\* multiplied by 10 for each digit x holds; digits after an overflow are
\* dropped
LeadingFractionStep(p, c) ==
    IF p.overflow THEN p
    ELSE IF ZLess(ZDiv(MaxInt64, 10), p.x) THEN [p EXCEPT !.overflow = TRUE]
    ELSE IF ZLess(TwoTo63, ZMulAdd(p.x, 10, DigitVal(c)))
         THEN [p EXCEPT !.overflow = TRUE]
    ELSE [x |-> ZMulAdd(p.x, 10, DigitVal(c)), scale |-> Float64Mul(p.scale, Float64Ten),
          overflow |-> FALSE]

RECURSIVE LeadingFractionRun(_, _, _, _)
LeadingFractionRun(s, lo, hi, p) ==
    IF lo > hi THEN p
    ELSE IF lo = hi THEN LeadingFractionStep(p, s[lo])
    ELSE CHOOSE r \in {LeadingFractionRun(s, (lo + hi) \div 2 + 1, hi, q) :
                         q \in {LeadingFractionRun(s, lo, (lo + hi) \div 2, p)}} : TRUE

LeadingFraction(s, i, j) ==
    LeadingFractionRun(s, i, j - 1, [x |-> ZZero, scale |-> Float64One, overflow |-> FALSE])

\* time.unitMap: a unit's nanoseconds as a product of small factors; <<>> for
\* a name that is no unit.  The micro sign (U+00B5) and the Greek letter mu
\* (U+03BC) are one character each here, two bytes each in Go; neither byte
\* is a digit or a period, so a unit name ends at the same place.
UnitFactors(u) ==
    CASE u = <<"n", "s">> -> <<1>>
      [] u = <<"u", "s">> -> <<1000>>
      [] u = <<"µ", "s">> -> <<1000>>
      [] u = <<"μ", "s">> -> <<1000>>
      [] u = <<"m", "s">> -> <<1000000>>
      [] u = <<"s">> -> <<1000, 1000000>>
      [] u = <<"m">> -> <<60, 1000, 1000000>>
      [] u = <<"h">> -> <<3600, 1000, 1000000>>
      [] OTHER -> <<>>

\* x times the product of the factors fs
ScaleBy(x, fs) ==
    LET f[n \in 0..Len(fs)] == IF n = 0 THEN x ELSE ZScale(f[n - 1], fs[n])
    IN  f[Len(fs)]

\* uint64(float64(f) * (float64(unit) / scale)) for f > 0 and unit the
\* product of fs
FractionNanosOf(x, y) ==
    CHOOSE r \in {Float64ToUint64(p) : p \in {Float64Mul(x, y)}} : TRUE

FractionNanos(f, scale, fs) ==
    CHOOSE r \in {FractionNanosOf(x, y) :
                    x \in {Float64Of(f)},
                    y \in {Float64Div(Float64Of(ScaleBy(NatZ(1), fs)), scale)}} : TRUE

\* one group "[0-9]*(\.[0-9]*)?[a-z]+" of time.ParseDuration, from position
\* st.i on, added to st.d
DurationGroupSumOf(st, m, vu) ==
    IF ZLess(TwoTo63, vu) THEN [st EXCEPT !.err = "invalid"]
    ELSE IF ZLess(TwoTo63, WrapU64(ZAdd(st.d, vu)))
         THEN [st EXCEPT !.err = "invalid"]
    ELSE [i |-> m, d |-> WrapU64(ZAdd(st.d, vu)), err |-> "nil"]

DurationGroupSum(st, m, v, fr, fs) ==
    IF ZLess(TwoTo63, ScaleBy(v, fs)) THEN [st EXCEPT !.err = "invalid"]
    ELSE CHOOSE r \in {DurationGroupSumOf(st, m, vu) :
                          vu \in {ZAdd(ScaleBy(v, fs),
                                       IF fr.x = ZZero THEN ZZero
                                       ELSE FractionNanos(fr.x, fr.scale, fs))}} : TRUE

DurationGroup(s, st) ==
    LET i == st.i
        j == DigitRunEnd(s, i)
        dot == j <= Len(s) /\ s[j] = "."
        k == IF dot THEN DigitRunEnd(s, j + 1) ELSE j
        m == UnitEnd(s, k)
        fs == UnitFactors(SubSeq(s, k, m - 1))
    IN  IF ~(s[i] = "." \/ IsDigit(s[i])) THEN [st EXCEPT !.err = "invalid"]
        ELSE IF LeadingInt(s, i, j).err # "nil" THEN [st EXCEPT !.err = "invalid"]
        \* no digits (e.g. ".s" or "-.s")
        ELSE IF j = i /\ ~(dot /\ k > j + 1) THEN [st EXCEPT !.err = "invalid"]
        ELSE IF m = k THEN [st EXCEPT !.err = "missing unit"]
        ELSE IF fs = <<>> THEN [st EXCEPT !.err = "unknown unit"]
        ELSE CHOOSE r \in {DurationGroupSum(st, m, v.x, fr, fs) :
                               v \in {LeadingInt(s, i, j)},
                               fr \in {IF dot THEN LeadingFraction(s, j + 1, k)
                                       ELSE [x |-> ZZero, scale |-> Float64One,
                                             overflow |-> FALSE]}} : TRUE

RECURSIVE DurationGroups(_, _)
DurationGroups(s, st) ==
    IF st.err # "nil" \/ st.i > Len(s) THEN st
    ELSE CHOOSE r \in {DurationGroups(s, g) : g \in {DurationGroup(s, st)}} : TRUE

\* the sign and the range check that end time.ParseDuration
DurationResult(st, neg) ==
    IF st.err # "nil" THEN [val |-> ZZero, err |-> st.err]
    ELSE IF neg THEN [val |-> Wrap64(ZNeg(st.d)), err |-> "nil"]
    ELSE IF ZLess(MaxInt64, st.d) THEN [val |-> ZZero, err |-> "invalid"]
    ELSE [val |-> st.d, err |-> "nil"]

\* time.ParseDuration(s): the Duration (nanoseconds) returned and the error
ParseDurationChars(s) ==
    LET signed == s # <<>> /\ s[1] \in {"+", "-"}
        neg == s # <<>> /\ s[1] = "-"
        body == IF signed THEN SubSeq(s, 2, Len(s)) ELSE s
    IN  IF body = <<"0">> THEN [val |-> ZZero, err |-> "nil"]
        ELSE IF body = <<>> THEN [val |-> ZZero, err |-> "invalid"]
        ELSE CHOOSE r \in {DurationResult(st, neg) :
                st \in {DurationGroups(body, [i |-> 1, d |-> ZZero, err |-> "nil"])}} : TRUE

ParseDuration(str) == CHOOSE r \in {ParseDurationChars(s) : s \in {str}} : TRUE

(***************************************************************************)
(* Bounds and inputs                                                       *)
(***************************************************************************)
\* the clock (Unix seconds, read by time.Now) runs from StartTime to MaxNow
StartTime == 2
MaxNow == 4
\* results the job executors may put on the outbound queue in a run
MaxJobs == 2
\* the longest batch of messages a send returns
MaxBatch == 2

Str9223372036854775807 ==
    <<"9", "2", "2", "3", "3", "7", "2", "0", "3", "6", "8", "5", "4", "7", "7",
      "5", "8", "0", "7">>

\* configuration strings of the run loop's specification
KillDateStrings == {<<>>, <<"1">>, <<"3">>}
MaxRetryStrings == {<<"1">>, <<"2">>, <<"3">>, <<"0">>, <<"-", "1">>}
SleepStrings == {<<"3", "0", "s">>}
SkewStrings == {<<"0">>, <<"2">>, Str9223372036854775807}

\* messages of the server: a registration response, the members of a batch
IdleMsg == [Type |-> "IDLE", Payload |-> <<>>]
\* no message
NoMsg == [Type |-> "NONE", Payload |-> <<>>]
ServerJobsMsg == [Type |-> "JOBS", Payload |-> <<[Type |-> "CMD", ID |-> 0]>>]
ServerMsgs == {IdleMsg, ServerJobsMsg}

Batches == UNION {[1..n -> ServerMsgs] : n \in 0..MaxBatch}

(***************************************************************************)
(* State                                                                   *)
(***************************************************************************)
VARIABLES
    config,         \* the Config passed to New: Sleep, Skew, KillDate, MaxRetry
    KillDate,       \* Agent.KillDate (int64)
    MaxRetry,       \* Agent.MaxRetry (int)
    WaitTime,       \* Agent.WaitTime (time.Duration, nanoseconds)
    Skew,           \* Agent.Skew (int64)
    FailedCheckin,  \* Agent.FailedCheckin
    Initial,        \* Agent.Initial
    iCheckIn,       \* Agent.iCheckIn (-1: the zero time)
    sCheckIn,       \* Agent.sCheckIn (-1: the zero time)
    pc,             \* where the process is: new, top, checkin, status, send,
                    \* retry, sleep, exited
    exitCode,       \* the status passed to os.Exit (-1: still running)
    now,            \* the clock
    sleep,          \* the duration of the last time.Sleep
    jobsOut,        \* the outbound job queue getJobs drains
    produced,       \* how many results the executors have queued so far
    delivered,      \* the results a successful send carried, in order
    events,         \* what this iteration did, in order
    consec,         \* the Transport attempts that failed in a row, up to now
    called,         \* whether a Transport call was ever made
    lateCalls,      \* the Transport calls that started with the kill date due
    sending         \* the message a.Client.Send is busy with (NoMsg: none)

vars == <<config, KillDate, MaxRetry, WaitTime, Skew, FailedCheckin, Initial,
          iCheckIn, sCheckIn, pc, exitCode, now, sleep, jobsOut, produced,
          delivered, events, consec, called, lateCalls, sending>>

agentConfig == <<config, KillDate, MaxRetry, WaitTime, Skew>>
jobVars == <<jobsOut, produced, delivered>>

InitWith(sleeps, skews, killDates, maxRetries) ==
    /\ config \in [Sleep : sleeps, Skew : skews, KillDate : killDates,
                   MaxRetry : maxRetries]
    /\ KillDate = ZZero
    /\ MaxRetry = ZZero
    /\ WaitTime = ZZero
    /\ Skew = ZZero
    /\ FailedCheckin = 0
    /\ Initial = FALSE
    /\ iCheckIn = -1
    /\ sCheckIn = -1
    /\ pc = "new"
    /\ exitCode = -1
    /\ now = StartTime
    /\ sleep = ZZero
    /\ jobsOut = <<>>
    /\ produced = 0
    /\ delivered = <<>>
    /\ events = <<>>
    /\ consec = 0
    /\ called = FALSE
    /\ lateCalls = 0
    /\ sending = NoMsg

Init == InitWith(SleepStrings, SkewStrings, KillDateStrings, MaxRetryStrings)

(***************************************************************************)
(* New                                                                     *)
(***************************************************************************)
Millisecond == NatZ(1000000)

\* agent.go 129-135: the value ParseInt returns is kept, whatever the error
NewKillDate(s) == IF s # <<>> THEN ParseInt(s).val ELSE ZZero


\* a constructor that takes the default for a retry ceiling below 1
NewMaxRetryAtLeastOne(s) ==
    IF s # <<>>
    THEN CHOOSE v \in {IF r.err # "nil" \/ ZLeq(r.val, ZZero) THEN NatZ(7) ELSE r.val :
                          r \in {Atoi(s)}} : TRUE
    ELSE NatZ(7)

\* agent.go 137-146
NewMaxRetry(s) ==
    IF s # <<>>
    THEN CHOOSE v \in {IF r.err # "nil" THEN NatZ(7) ELSE r.val : r \in {Atoi(s)}} : TRUE
    ELSE NatZ(7)

\* agent.go 148-157
NewWaitTime(s) ==
    IF s # <<>>
    THEN CHOOSE v \in {IF r.err # "nil" THEN ZScale(Millisecond, 30000) ELSE r.val :
                          r \in {ParseDuration(s)}} : TRUE
    ELSE ZScale(Millisecond, 30000)

\* agent.go 159-168
NewSkew(s) ==
    IF s # <<>>
    THEN CHOOSE v \in {IF r.err # "nil" THEN NatZ(3000) ELSE r.val :
                          r \in {ParseInt(s)}} : TRUE
    ELSE NatZ(3000)

New ==
    /\ pc = "new"
    /\ KillDate' = NewKillDate(config.KillDate)
    /\ MaxRetry' = NewMaxRetry(config.MaxRetry)
    /\ WaitTime' = NewWaitTime(config.Sleep)
    /\ Skew' = NewSkew(config.Skew)
    /\ pc' = "top"
    /\ UNCHANGED <<config, FailedCheckin, Initial, iCheckIn, sCheckIn, exitCode,
                   now, sleep, jobsOut, produced, delivered, events, consec, called,
                   lateCalls, sending>>

(***************************************************************************)
(* The collaborators of Run that live outside agent.go                     *)
(***************************************************************************)
ResultJob(n) == [Type |-> "RESULT", ID |-> n]

\* getJobs: the outbound message built from the queue q, which it drains; a
\* check-in message without jobs when nothing is queued
getJobs(q) ==
    IF q = <<>> THEN [Type |-> "CHECKIN", Payload |-> <<>>]
    ELSE [Type |-> "JOBS", Payload |-> q]

IsResult(j) == j.Type = "RESULT"

\* messageHandler(m) on the queue q: results that come back in a jobs message
\* are queued again; the server's jobs go to the executors
messageHandler(q, m) ==
    IF m.Type = "JOBS" THEN q \o SelectSeq(m.Payload, IsResult) ELSE q

\* the queue after messageHandler has taken the messages of ms in order
RECURSIVE handleAll(_, _)
handleAll(q, ms) ==
    IF ms = <<>> THEN q ELSE handleAll(messageHandler(q, Head(ms)), Tail(ms))


\* a loop over the batch that runs from its last message to its first
DispatchedBackwards(ms) == [i \in 1..Len(ms) |-> <<"dispatch", ms[Len(ms) + 1 - i]>>]

Dispatched(ms) == [i \in 1..Len(ms) |-> <<"dispatch", ms[i]>>]

\* the results the executors put on the outbound queue while the loop runs
ProduceJob ==
    /\ pc \notin {"new", "exited"}
    /\ produced < MaxJobs
    /\ produced' = produced + 1
    /\ jobsOut' = Append(jobsOut, ResultJob(produced + 1))
    /\ UNCHANGED <<agentConfig, FailedCheckin, Initial, iCheckIn, sCheckIn, pc,
                   exitCode, now, sleep, delivered, events, consec, called,
                   lateCalls, sending>>

\* the clock after a call that blocks
Tick == {t \in {now, now + 1} : t <= MaxNow}

(***************************************************************************)
(* Run                                                                     *)
(***************************************************************************)
\* a check that lets the second of the kill date itself pass
KillDateExceededStrict == KillDate # ZZero /\ ZLess(KillDate, NatZ(now))

\* agent.go 201: (a.KillDate != 0) && (time.Now().Unix() >= a.KillDate)
KillDateExceeded == KillDate # ZZero /\ ZLeq(KillDate, NatZ(now))

\* 1 for a Transport call (agent.go 210, 247) that starts when the kill date
\* has been reached, 0 for one that starts before
StartedLate == IF KillDate # ZZero /\ ZLeq(KillDate, NatZ(now)) THEN 1 ELSE 0


\* a kill date that is examined only until the first Transport call
KillDateCheckUntilCalled ==
    /\ pc = "top"
    /\ sleep' = ZZero
    /\ IF KillDateExceeded /\ ~called
       THEN /\ pc' = "exited"
            /\ exitCode' = 0
            /\ events' = << <<"exit", "killdate">> >>
            /\ UNCHANGED now
       ELSE /\ pc' = "checkin"
            /\ events' = <<>>
            /\ now' \in Tick
            /\ UNCHANGED exitCode
    /\ UNCHANGED <<agentConfig, FailedCheckin, Initial, iCheckIn, sCheckIn,
                   jobVars, consec, called, lateCalls,
                   sending>>

\* agent.go 200-204, the top of an iteration; the clock may move on between
\* the reading of line 201 and the Transport call that follows
KillDateCheck ==
    /\ pc = "top"
    /\ sleep' = ZZero
    /\ IF KillDateExceeded
       THEN /\ pc' = "exited"
            /\ exitCode' = 0
            /\ events' = << <<"exit", "killdate">> >>
            /\ UNCHANGED now
       ELSE /\ pc' = "checkin"
            /\ events' = <<>>
            /\ now' \in Tick
            /\ UNCHANGED exitCode
    /\ UNCHANGED <<agentConfig, FailedCheckin, Initial, iCheckIn, sCheckIn,
                   jobVars, consec, called, lateCalls,
                   sending>>

\* a loop that takes up the handshake again after a failed check-in
AtRegisterAfterFailure == pc = "checkin" /\ (~Initial \/ FailedCheckin > 0)

\* agent.go 206, 209: the branch that registers
AtRegister == pc = "checkin" /\ ~Initial

\* a failed registration that falls through to the status check-in
RegisterFailThenCheckIn ==
    /\ AtRegister
    /\ FailedCheckin' = FailedCheckin + 1
    /\ events' = Append(events, <<"register", FALSE>>)
    /\ consec' = consec + 1
    /\ called' = TRUE
    /\ lateCalls' = lateCalls + StartedLate
    /\ UNCHANGED sending
    /\ now' \in Tick
    /\ pc' = "status"
    /\ UNCHANGED <<agentConfig, Initial, iCheckIn, sCheckIn, exitCode, sleep,
                   jobVars>>


\* a failed registration that counts for two
RegisterFailCountsTwice ==
    /\ AtRegister
    /\ FailedCheckin' = FailedCheckin + 2
    /\ events' = Append(events, <<"register", FALSE>>)
    /\ consec' = consec + 1
    /\ called' = TRUE
    /\ lateCalls' = lateCalls + StartedLate
    /\ UNCHANGED sending
    /\ now' \in Tick
    /\ pc' = "retry"
    /\ UNCHANGED <<agentConfig, Initial, iCheckIn, sCheckIn, exitCode, sleep,
                   jobVars>>

\* agent.go 210-214: a.Client.Initial returns an error
RegisterFail ==
    /\ AtRegister
    /\ FailedCheckin' = FailedCheckin + 1
    /\ events' = Append(events, <<"register", FALSE>>)
    /\ consec' = consec + 1
    /\ called' = TRUE
    /\ lateCalls' = lateCalls + StartedLate
    /\ UNCHANGED sending
    /\ now' \in Tick
    /\ pc' = "retry"
    /\ UNCHANGED <<agentConfig, Initial, iCheckIn, sCheckIn, exitCode, sleep,
                   jobVars>>

\* a registration that leaves the status check-in to the next iteration
RegisterOkNoCheckIn ==
    /\ AtRegister
    /\ \E msg \in ServerMsgs :
        /\ events' = events \o << <<"register", TRUE>>, <<"dispatch", msg>> >>
        /\ jobsOut' = messageHandler(jobsOut, msg)
    /\ Initial' = TRUE
    /\ now' \in Tick
    /\ iCheckIn' = now'
    /\ consec' = 0
    /\ called' = TRUE
    /\ lateCalls' = lateCalls + StartedLate
    /\ UNCHANGED sending
    /\ pc' = "retry"
    /\ UNCHANGED <<agentConfig, FailedCheckin, sCheckIn, exitCode, sleep,
                   produced, delivered>>

\* agent.go 210, 215-218: a.Client.Initial returns msg; line 220 is the
\* status check-in the process is now at
RegisterOk ==
    /\ AtRegister
    /\ \E msg \in ServerMsgs :
        /\ events' = events \o << <<"register", TRUE>>, <<"dispatch", msg>> >>
        /\ jobsOut' = messageHandler(jobsOut, msg)
    /\ Initial' = TRUE
    /\ now' \in Tick
    /\ iCheckIn' = now'
    /\ consec' = 0
    /\ called' = TRUE
    /\ lateCalls' = lateCalls + StartedLate
    /\ UNCHANGED sending
    /\ pc' = "status"
    /\ UNCHANGED <<agentConfig, FailedCheckin, sCheckIn, exitCode, sleep,
                   produced, delivered>>


\* a status check-in that is tried again before the retry check when the
\* counter is not 0
AtStatusCheckInAgain ==
    (pc = "checkin" /\ Initial) \/ pc = "status" \/ (pc = "retry" /\ FailedCheckin > 0)

\* agent.go 206-208 and 220: where statusCheckIn is called
AtStatusCheckIn == (pc = "checkin" /\ Initial) \/ pc = "status"

\* agent.go 244-247: statusCheckIn takes the queued results from getJobs and
\* hands the message to a.Client.Send, which blocks until SendFail or SendOk
GetJobs ==
    /\ AtStatusCheckIn
    /\ sending' = getJobs(jobsOut)
    /\ jobsOut' = <<>>
    /\ called' = TRUE
    /\ lateCalls' = lateCalls + StartedLate
    /\ pc' = "send"
    /\ UNCHANGED <<agentConfig, FailedCheckin, Initial, iCheckIn, sCheckIn,
                   exitCode, now, sleep, produced, delivered, events, consec>>

\* a failed send that drops its jobs
RequeuedNever(msg) == <<>>


\* a failed send that hands back whatever it sent
RequeuedAlways(msg) == <<msg>>

\* agent.go 254-257: the messages a failed send of msg hands back to
\* messageHandler
Requeued(msg) == IF msg.Type = "JOBS" THEN <<msg>> ELSE <<>>



\* a failed send that records the time of the check-in all the same
SendFailRecordsTime ==
    /\ pc = "send"
    /\ LET msg == sending
       IN  /\ events' = events \o << <<"send", FALSE, msg>> >>
                               \o Dispatched(Requeued(msg))
           /\ jobsOut' = handleAll(jobsOut, Requeued(msg))
    /\ FailedCheckin' = FailedCheckin + 1
    /\ consec' = consec + 1
    /\ sending' = NoMsg
    /\ now' \in Tick
    /\ sCheckIn' = now'
    /\ pc' = "retry"
    /\ UNCHANGED <<agentConfig, called, lateCalls, Initial, iCheckIn, exitCode, sleep, produced,
                   delivered>>

\* a failed send that ends the process
SendFailFatal ==
    /\ pc = "send"
    /\ LET msg == sending
       IN  /\ events' = events \o << <<"send", FALSE, msg>> >>
                               \o Dispatched(Requeued(msg))
           /\ jobsOut' = handleAll(jobsOut, Requeued(msg))
    /\ FailedCheckin' = FailedCheckin + 1
    /\ consec' = consec + 1
    /\ sending' = NoMsg
    /\ now' \in Tick
    /\ pc' = "exited"
    /\ exitCode' = 1
    /\ UNCHANGED <<agentConfig, called, lateCalls, Initial, iCheckIn, sCheckIn, sleep, produced,
                   delivered>>

\* agent.go 247-259: a.Client.Send returns an error
SendFail ==
    /\ pc = "send"
    /\ LET msg == sending
       IN  /\ events' = events \o << <<"send", FALSE, msg>> >>
                               \o Dispatched(Requeued(msg))
           /\ jobsOut' = handleAll(jobsOut, Requeued(msg))
    /\ FailedCheckin' = FailedCheckin + 1
    /\ consec' = consec + 1
    /\ sending' = NoMsg
    /\ now' \in Tick
    /\ pc' = "retry"
    /\ UNCHANGED <<agentConfig, called, lateCalls, Initial, iCheckIn, sCheckIn,
                   exitCode, sleep, produced, delivered>>

\* agent.go 247, 261-271: a.Client.Send returns the batch bases
SendOk ==
    /\ pc = "send"
    /\ \E bases \in Batches :
        LET msg == sending
        IN  /\ events' = events \o << <<"send", TRUE, msg, bases>> >>
                                \o Dispatched(bases)
            /\ jobsOut' = handleAll(jobsOut, bases)
            /\ delivered' = delivered \o msg.Payload
    /\ FailedCheckin' = 0
    /\ now' \in Tick
    /\ sCheckIn' = now'
    /\ consec' = 0
    /\ sending' = NoMsg
    /\ pc' = "retry"
    /\ UNCHANGED <<agentConfig, called, lateCalls, Initial, iCheckIn, exitCode,
                   sleep, produced>>

\* a ceiling that allows one failure more
RetriesExhaustedStrict == ZLess(MaxRetry, NatZ(FailedCheckin))

\* agent.go 224: a.FailedCheckin >= a.MaxRetry
RetriesExhausted == ZLeq(MaxRetry, NatZ(FailedCheckin))


\* a loop that starts its next iteration without sleeping
RetryCheckNoSleep ==
    /\ pc = "retry"
    /\ IF RetriesExhausted
       THEN /\ pc' = "exited"
            /\ exitCode' = 0
            /\ events' = Append(events, <<"exit", "retry">>)
       ELSE /\ pc' = "top"
            /\ UNCHANGED <<exitCode, events>>
    /\ UNCHANGED <<agentConfig, FailedCheckin, Initial, iCheckIn, sCheckIn, now,
                   sleep, jobVars, consec, called, lateCalls,
                   sending>>

\* agent.go 223-227
RetryCheck ==
    /\ pc = "retry"
    /\ IF RetriesExhausted
       THEN /\ pc' = "exited"
            /\ exitCode' = 0
            /\ events' = Append(events, <<"exit", "retry">>)
       ELSE /\ pc' = "sleep"
            /\ UNCHANGED <<exitCode, events>>
    /\ UNCHANGED <<agentConfig, FailedCheckin, Initial, iCheckIn, sCheckIn, now,
                   sleep, jobVars, consec, called, lateCalls,
                   sending>>

\* a draw that overflows an int64 once it is counted in nanoseconds
LargeDraw == DecZ(<<9, 2, 2, 3, 3, 7, 2, 0, 3, 6, 8, 5, 5>>)

\* rand.Int63n(n), n > 0: the draws the model takes from [0, n)
Int63n(n) ==
    {r \in {ZZero, NatZ(1), LargeDraw, ZSub(n, NatZ(1))} : ZLess(r, n)}

\* agent.go 231: a.WaitTime + (time.Duration(r) * time.Millisecond), in int64
SkewedSleep(r) == Wrap64(ZAdd(WaitTime, Wrap64(ZScale(r, 1000000))))


\* a sleep that never returns
SleepNeverReturns ==
    /\ pc = "sleep"
    /\ UNCHANGED vars

\* agent.go 228-236
Sleep ==
    /\ pc = "sleep"
    /\ IF ZLess(ZZero, Skew)
       THEN \E r \in Int63n(Skew) : sleep' = SkewedSleep(r)
       ELSE sleep' = WaitTime
    /\ events' = Append(events, <<"sleep">>)
    /\ now' \in Tick
    /\ pc' = "top"
    /\ UNCHANGED <<agentConfig, FailedCheckin, Initial, iCheckIn, sCheckIn,
                   exitCode, jobVars, consec, called, lateCalls,
                   sending>>

Next ==
    \/ New
    \/ KillDateCheck
    \/ RegisterFail
    \/ RegisterOk
    \/ GetJobs
    \/ SendFail
    \/ SendOk
    \/ RetryCheck
    \/ Sleep
    \/ ProduceJob

Spec == Init /\ [][Next]_vars

\* Run is one sequential loop: New returns, each check is evaluated, and, as
\* far as every Transport call and every sleep returns, each call and each
\* sleep is left again, with one of its outcomes
Progress ==
    /\ WF_vars(New)
    /\ WF_vars(KillDateCheck)
    /\ WF_vars(RegisterFail \/ RegisterOk)
    /\ WF_vars(GetJobs)
    /\ WF_vars(SendFail \/ SendOk)
    /\ WF_vars(RetryCheck)
    /\ WF_vars(Sleep)

\* the configurations of the fair specification: no jitter, no kill date
\* or one the clock reaches, a retry ceiling of 0, 1 or 2
InitLive ==
    InitWith(SleepStrings, {<<"0">>}, {<<>>, <<"3">>}, {<<"0">>, <<"1">>, <<"2">>})

SpecLive == InitLive /\ [][Next]_vars /\ Progress

(***************************************************************************)
(* New alone, over a wider set of configuration strings                    *)
(***************************************************************************)
Str9223372036854775808 ==
    <<"9", "2", "2", "3", "3", "7", "2", "0", "3", "6", "8", "5", "4", "7", "7",
      "5", "8", "0", "8">>

\* strings strconv.ParseInt and strconv.Atoi reject with a syntax error
SyntaxErrorInts == {<<"1", "x">>, <<"-">>}
\* strings they reject as out of the range of an int64
OutOfRangeInts == {Str9223372036854775808, <<"-">> \o Str9223372036854775808 \o <<"9">>}
\* strings they accept
ValidInts == {<<"0">>, <<"-", "1">>, Str9223372036854775807}

\* strings time.ParseDuration rejects: no unit, an unknown unit, no digits,
\* and a duration beyond an int64 of nanoseconds
MalformedDurations ==
    {<<"3", "0", "0", "0", "0">>, <<"1", "x">>, <<".", "s">>,
     <<"2", "5", "6", "2", "0", "4", "8", "h">>}
ValidDurations == {<<"1", ".", "5", "s">>, <<"-", "1", "h", "2", "m">>,
                   <<"0", ".", "3", "3", "3", "3", "µ", "s">>}

IntStrings == {<<>>} \cup SyntaxErrorInts \cup OutOfRangeInts \cup ValidInts
DurationStrings == {<<>>} \cup MalformedDurations \cup ValidDurations

InitNew == InitWith(DurationStrings, IntStrings, IntStrings, IntStrings)
NextNew == New
SpecNew == InitNew /\ [][NextNew]_vars

(***************************************************************************)
(* Claims                                                                  *)
(***************************************************************************)
\* what the events of an iteration hold
Has(es, e) == \E i \in 1..Len(es) : es[i] = e
CountOp(es, op) == Cardinality({i \in 1..Len(es) : es[i][1] = op})
LastEvent == IF events = <<>> THEN <<"none">> ELSE events[Len(events)]
ExitedBy(why) == pc = "exited" /\ LastEvent = <<"exit", why>>

\* Transport calls and sleeps the step made
NoCallNoSleep ==
    /\ CountOp(events', "register") <= CountOp(events, "register")
    /\ CountOp(events', "send") <= CountOp(events, "send")
    /\ CountOp(events', "sleep") <= CountOp(events, "sleep")

\* C1: for maxRetry n >= 1, once n Transport attempts in a row have failed,
\* the process is at the retry check of the iteration of the n-th failure (or
\* has exited there); its next step exits with status 0, and no Transport
\* call and no sleep follows the n-th failure.
C1_Exhausted == ZLeq(NatZ(1), MaxRetry) /\ ZLeq(MaxRetry, NatZ(consec))
C1_ExitAfterNFailures ==
    /\ [](C1_Exhausted => /\ pc \in {"retry", "exited"}
                          /\ MaxRetry = NatZ(consec)
                          /\ (pc = "exited" => exitCode = 0 /\ ExitedBy("retry")))
    /\ [][C1_Exhausted => /\ pc' \in {pc, "exited"}
                          /\ NoCallNoSleep]_vars
C1_Witness ==
    /\ ExitedBy("retry")
    /\ consec = 3
    /\ MaxRetry = NatZ(3)
    /\ Initial

\* C2: after any successful Transport exchange, a registration or a status
\* check-in, failedCheckins is 0: while the last attempt was a success the
\* counter is 0.
C2_ResetOnAnySuccess == (called /\ consec = 0) => FailedCheckin = 0

\* C3: the retry-exhaustion exit is taken only when the most recent maxRetry
\* Transport attempts all failed.
C3_ExitOnlyAfterConsecutiveFailures ==
    ExitedBy("retry") => ZLeq(MaxRetry, NatZ(consec))

\* C4: if killDate != 0 and now >= killDate at the top of an iteration, the
\* step of Run from there exits with status 0, with no Transport call, no
\* dispatch and no sleep in that iteration; and an agent constructed with a
\* kill date in the past never makes a Transport call.
C4_Due == KillDate # ZZero /\ ZLeq(KillDate, NatZ(now))
C4_KillDateBeforeCommunication ==
    /\ [](/\ (ExitedBy("killdate") => exitCode = 0 /\ Len(events) = 1)
          /\ (pc # "new" /\ KillDate # ZZero /\ ZLeq(KillDate, NatZ(StartTime))
                => ~called /\ pc \in {"top", "exited"}))
    /\ [][pc = "top" /\ C4_Due /\ pc' # pc
            => /\ pc' = "exited"
               /\ exitCode' = 0
               /\ events' = << <<"exit", "killdate">> >>
               /\ called' = called]_vars
C4_Witness ==
    /\ ExitedBy("killdate")
    /\ Initial
    /\ called
    /\ KillDate = NatZ(3)

\* C5: once Initial is true it stays true, and no later step calls the
\* registration operation, whatever the sends do.
C5_HandshakeOnce ==
    [][Initial => /\ Initial'
                  /\ CountOp(events', "register") <= CountOp(events, "register")]_vars
C5_Witness ==
    /\ Initial
    /\ pc = "retry"
    /\ FailedCheckin = 2
    /\ CountOp(events, "register") = 0
    /\ CountOp(events, "send") = 1

\* C6: Initial becomes true only in a step whose register call succeeded; a
\* failed register call leaves Initial false, adds exactly one to
\* failedCheckins, and no send and no dispatch follows in that iteration.
C6_RegisterFailure ==
    /\ [](Has(events, <<"register", FALSE>>)
            => /\ ~Initial
               /\ CountOp(events, "send") = 0
               /\ CountOp(events, "dispatch") = 0
               /\ CountOp(events, "register") = 1)
    /\ [][/\ (~Initial /\ Initial'
                => events' = events \o SubSeq(events', Len(events) + 1, Len(events'))
                   /\ Has(SubSeq(events', Len(events) + 1, Len(events')),
                          <<"register", TRUE>>))
          /\ (~Has(events, <<"register", FALSE>>) /\ Has(events', <<"register", FALSE>>)
                => FailedCheckin' = FailedCheckin + 1 /\ ~Initial')]_vars
C6_Witness ==
    /\ pc = "sleep"
    /\ events = << <<"register", FALSE>> >>
    /\ FailedCheckin = 2
    /\ ~Initial

\* C7: in the iteration whose register call succeeds, the registration
\* response is dispatched, Initial is set, and exactly one send follows
\* before the retry check and the sleep: register first, send second.
C7_Registered == events # <<>> /\ events[1] = <<"register", TRUE>>
C7_RegisterThenCheckIn ==
    /\ [](/\ (pc = "status" => C7_Registered /\ Len(events) = 2)
          /\ (C7_Registered
                => /\ Initial
                   /\ CountOp(events, "register") = 1
                   /\ Len(events) >= 2
                   /\ events[2][1] = "dispatch"
                   /\ events[2][2] \in ServerMsgs
                   /\ (pc \notin {"status", "send"}
                         => /\ Len(events) >= 3
                            /\ events[3][1] = "send"
                            /\ CountOp(events, "send") = 1)))
    /\ [][/\ (pc = "status" => pc' \in {"status", "send"})
          /\ (pc = "send" => pc' \in {"send", "retry"})]_vars
C7_Witness ==
    /\ C7_Registered
    /\ pc = "sleep"
    /\ Len(events) >= 3
    /\ events[3][1] = "send"
    /\ FailedCheckin = 0

\* C8: a failed send whose outbound message is of type JOBS is followed at
\* once by exactly one dispatch of that same message; and every result ever
\* queued is, exactly once, either on the outbound queue, in the message a
\* send is busy with, or delivered by a successful send.
C8_Occurrences(n) ==
    Cardinality({i \in 1..Len(jobsOut) : jobsOut[i] = ResultJob(n)})
    + Cardinality({i \in 1..Len(delivered) : delivered[i] = ResultJob(n)})
    + Cardinality({i \in 1..Len(sending.Payload) : sending.Payload[i] = ResultJob(n)})
C8_FailedJobsSend(i) ==
    /\ events[i][1] = "send"
    /\ events[i][2] = FALSE
    /\ events[i][3].Type = "JOBS"
C8_Requeue ==
    /\ \A i \in 1..Len(events) :
          C8_FailedJobsSend(i)
            => /\ Len(events) > i
               /\ events[i + 1] = <<"dispatch", events[i][3]>>
               /\ CountOp(events, "dispatch") = CountOp(SubSeq(events, 1, i), "dispatch") + 1
    /\ \A n \in 1..MaxJobs : C8_Occurrences(n) = IF n <= produced THEN 1 ELSE 0
C8_Witness ==
    /\ \E i \in 1..Len(events) :
          C8_FailedJobsSend(i) /\ events[i][3].Payload = <<ResultJob(1)>>
    /\ jobsOut = <<ResultJob(2), ResultJob(1)>>
    /\ FailedCheckin = 2

\* C9: the sleep lies in [waitTime, waitTime + skew milliseconds] for every
\* skew >= 0, and equals waitTime when skew <= 0.
C9_Slept == pc = "top" /\ LastEvent = <<"sleep">>
C9_SleepWithinSkew ==
    C9_Slept =>
        /\ ZLeq(WaitTime, sleep)
        /\ ~ZIsNeg(Skew) => ZLeq(sleep, ZAdd(WaitTime, ZScale(Skew, 1000000)))
        /\ ZLeq(Skew, ZZero) => sleep = WaitTime

\* C10: an empty or unparseable sleep, skew, maxRetry or killDate leaves the
\* documented default in the Agent's field: 30000 ms, 3000, 7 and 0.
C10_Unparseable == {<<>>} \cup SyntaxErrorInts \cup OutOfRangeInts
C10_ConfigFallback ==
    pc = "top" =>
        /\ config.Sleep \in {<<>>} \cup MalformedDurations
             => WaitTime = DecZ(<<3, 0, 0, 0, 0, 0, 0, 0, 0, 0, 0>>)
        /\ config.Skew \in C10_Unparseable => Skew = NatZ(3000)
        /\ config.MaxRetry \in C10_Unparseable => MaxRetry = NatZ(7)
        /\ config.KillDate \in C10_Unparseable => KillDate = ZZero

\* C11: a failed register or send only adds one to failedCheckins and leaves
\* the process at the retry check of its iteration, still running; from
\* there, unless failedCheckins >= maxRetry or the kill date is due at the
\* top, the loop goes on to the sleep, to the top, and to a check-in that
\* makes a new Transport call, a register or a send; the process ends only by one of the two
\* termination checks.
C11_Failure == consec' = consec + 1
C11_NonFatalFailure ==
    /\ [][C11_Failure
            => /\ FailedCheckin' = FailedCheckin + 1
               /\ pc' = "retry"
               /\ exitCode' = -1
               /\ UNCHANGED <<agentConfig, Initial, iCheckIn, sCheckIn, sleep,
                              produced, delivered>>]_vars
    /\ [][consec > 0 /\ pc' # pc
            => /\ (pc = "retry" /\ ~ZLeq(MaxRetry, NatZ(FailedCheckin))
                     => pc' = "sleep")
               /\ (pc = "sleep" => pc' = "top")
               /\ (pc = "top" /\ ~C4_Due => pc' = "checkin")
               /\ (pc = "checkin"
                     => pc' = "send" \/ CountOp(events', "register") = 1)
               /\ (pc = "send"
                     => CountOp(events', "send") = CountOp(events, "send") + 1)
               /\ (pc' = "exited"
                     => \/ pc = "retry" /\ ZLeq(MaxRetry, NatZ(FailedCheckin))
                        \/ pc = "top" /\ C4_Due)]_vars
C11_Witness ==
    /\ pc = "retry"
    /\ consec = 2
    /\ FailedCheckin = 2
    /\ MaxRetry = NatZ(3)
    /\ CountOp(events, "send") = 1

\* C12: an iteration of Run goes through kill-date check, Transport
\* attempt(s), retry check and sleep in that order: the process moves only
\* top -> check-in -> (status ->) (send ->) retry -> sleep -> top, or from
\* one of the two checks to its exit; nothing of the iteration precedes the
\* kill-date check, the retry check and the sleep come after at least one
\* Transport call, and an iteration that does not terminate sleeps exactly
\* once, last.
C12_Order ==
    {<<"new", "top">>, <<"top", "checkin">>, <<"top", "exited">>,
     <<"checkin", "status">>, <<"checkin", "retry">>, <<"checkin", "send">>,
     <<"status", "send">>, <<"send", "retry">>,
     <<"retry", "sleep">>, <<"retry", "exited">>, <<"sleep", "top">>}
C12_Calls == CountOp(events, "register") + CountOp(events, "send")
C12_FixedOrder ==
    /\ [][pc' # pc => <<pc, pc'>> \in C12_Order]_vars
    /\ [](/\ (pc = "checkin" => events = <<>>)
          /\ (pc \in {"retry", "sleep"} \/ ExitedBy("retry")
                => C12_Calls >= 1 /\ CountOp(events, "sleep") = 0)
          /\ (pc \in {"retry", "sleep"} => CountOp(events, "exit") = 0)
          /\ (pc = "top" /\ events # <<>>
                => /\ LastEvent = <<"sleep">>
                   /\ CountOp(events, "sleep") = 1
                   /\ C12_Calls >= 1))
C12_Witness ==
    /\ pc = "top"
    /\ Len(events) >= 4
    /\ events[1] = <<"register", TRUE>>
    /\ events[3][1] = "send"
    /\ LastEvent = <<"sleep">>

\* C13: a successful send is followed in its iteration by exactly one
\* dispatch per message of the batch it returned, in the order of the batch
\* (none for an empty batch), and once the check-in is over failedCheckins
\* is 0 and sCheckIn holds the time of the check-in.
C13_SendOk(i) == events[i][1] = "send" /\ events[i][2] = TRUE
C13_BatchDispatch ==
    /\ \A i \in 1..Len(events) :
          C13_SendOk(i)
            => /\ Len(events[i][4]) <= MaxBatch
               /\ Len(events) >= i + Len(events[i][4])
               /\ \A k \in 1..Len(events[i][4]) :
                     events[i + k] = <<"dispatch", events[i][4][k]>>
               /\ CountOp(SubSeq(events, i + 1, Len(events)), "dispatch")
                    = Len(events[i][4])
               /\ CountOp(SubSeq(events, i + 1, Len(events)), "send") = 0
    /\ (pc \in {"retry", "sleep"} /\ \E i \in 1..Len(events) : C13_SendOk(i))
          => FailedCheckin = 0 /\ sCheckIn = now
C13_Witness ==
    /\ pc = "retry"
    /\ \E i \in 1..Len(events) :
          C13_SendOk(i) /\ events[i][4] = <<ServerJobsMsg, IdleMsg>>
    /\ iCheckIn < sCheckIn

\* C14: failedCheckins is never negative; a step changes it only by adding
\* exactly one, which it does if and only if it made a failed register or a
\* failed send, or by setting it to 0, which only a step with a successful
\* send does; so it never decreases between two resets.
C14_Failures(es) ==
    Cardinality({i \in 1..Len(es) : es[i][1] \in {"register", "send"} /\ es[i][2] = FALSE})
C14_Successes(es) ==
    Cardinality({i \in 1..Len(es) : es[i][1] = "send" /\ es[i][2] = TRUE})
C14_CounterSteps ==
    /\ [](FailedCheckin \in Nat)
    /\ [][/\ FailedCheckin' \in {FailedCheckin, FailedCheckin + 1, 0}
          /\ (C14_Failures(events') = C14_Failures(events) + 1
                <=> FailedCheckin' = FailedCheckin + 1)
          /\ (FailedCheckin' < FailedCheckin
                => C14_Successes(events') = C14_Successes(events) + 1)
          /\ (C14_Successes(events') = C14_Successes(events) + 1
                => FailedCheckin' = 0)]_vars
C14_Witness ==
    /\ FailedCheckin = 2
    /\ consec = 2
    /\ sCheckIn # -1
    /\ pc = "retry"

\* C15: after a failed send the Job Handler is invoked during that check-in
\* if and only if the outbound message is of type JOBS: no dispatch follows
\* a failed send of any other message, exactly one follows a failed send of
\* a JOBS message.
C15_SendFail(i) == events[i][1] = "send" /\ events[i][2] = FALSE
C15_RedispatchOnlyJobs ==
    \A i \in 1..Len(events) :
        C15_SendFail(i)
          => CountOp(SubSeq(events, i + 1, Len(events)), "dispatch")
               = IF events[i][3].Type = "JOBS" THEN 1 ELSE 0
C15_Witness ==
    /\ pc = "retry"
    /\ Len(events) = 3
    /\ events[1] = <<"register", TRUE>>
    /\ C15_SendFail(3)
    /\ events[3][3].Type # "JOBS"
    /\ produced = MaxJobs

\* C16: iCheckIn is written once in a run, by the step whose register call
\* succeeded, the step that sets Initial; sCheckIn is written only by a step
\* with a successful send; a step with a failed register or a failed send
\* leaves iCheckIn, sCheckIn and Initial as they were.
C16_Registered(es) ==
    Cardinality({i \in 1..Len(es) : es[i] = <<"register", TRUE>>})
C16_Timestamps ==
    /\ [](Initial <=> iCheckIn # -1)
    /\ [][/\ (iCheckIn' # iCheckIn
                => /\ iCheckIn = -1
                   /\ ~Initial /\ Initial'
                   /\ C16_Registered(events') = C16_Registered(events) + 1)
          /\ (sCheckIn' # sCheckIn
                => C14_Successes(events') = C14_Successes(events) + 1)
          /\ (C14_Failures(events') = C14_Failures(events) + 1
                => UNCHANGED <<iCheckIn, sCheckIn, Initial>>)]_vars
C16_Witness ==
    /\ Initial
    /\ iCheckIn < sCheckIn
    /\ sCheckIn < now
    /\ FailedCheckin = 1
    /\ consec = 1
    /\ pc = "retry"

\* C17: for every maxRetry >= 1, failedCheckins <= maxRetry in every state
\* of Run, and an iteration holds at most one failed Transport attempt.
C17_CounterBounded ==
    /\ C14_Failures(events) <= 1
    /\ (pc # "new" /\ ZLeq(NatZ(1), MaxRetry)) => ZLeq(NatZ(FailedCheckin), MaxRetry)
C17_Witness ==
    /\ pc = "retry"
    /\ MaxRetry = NatZ(3)
    /\ FailedCheckin = 3
    /\ consec = 1
    /\ C7_Registered

\* C18: with a maxRetry string that parses to a value <= 0 ("0", "-1"), New
\* keeps that value, and Run ends in its first iteration with exit status 0:
\* whatever the register and the send returned, the step from the retry
\* check is the exit, also with failedCheckins = 0; the agent never sleeps
\* and never starts a second iteration. (An iteration whose kill date is due
\* ends at the kill-date check, before any Transport call, as in C4.)
C18_NoRetries == config.MaxRetry \in {<<"0">>, <<"-", "1">>}
C18_ExitInFirstIteration ==
    /\ [](C18_NoRetries /\ pc # "new"
            => /\ MaxRetry = (IF config.MaxRetry = <<"0">> THEN ZZero ELSE ZNeg(NatZ(1)))
               /\ pc # "sleep"
               /\ CountOp(events, "sleep") = 0
               /\ sleep = ZZero
               /\ (pc = "top" => ~called)
               /\ (pc = "exited"
                     => /\ exitCode = 0
                        /\ \/ ExitedBy("retry") /\ C12_Calls >= 1
                           \/ ExitedBy("killdate") /\ ~called))
    /\ [][C18_NoRetries /\ pc = "retry" /\ pc' # pc
            => /\ pc' = "exited"
               /\ exitCode' = 0
               /\ events' = Append(events, <<"exit", "retry">>)]_vars
C18_Witness ==
    /\ config.MaxRetry = <<"-", "1">>
    /\ ExitedBy("retry")
    /\ FailedCheckin = 0
    /\ Initial
    /\ sCheckIn # -1

\* C19: at most two Transport calls start once now >= killDate holds with
\* killDate != 0, both in the iteration whose kill-date check came before
\* that moment: two only as a register followed by the send of the same
\* iteration; the iteration after it is never entered, the step from its top
\* is the exit with status 0.
C19_LateCallsBounded ==
    /\ [](/\ lateCalls <= 2
          /\ (pc = "checkin" => lateCalls = 0)
          /\ (pc \in {"status", "retry", "sleep"} => lateCalls <= C12_Calls)
          /\ (pc = "send" => lateCalls <= C12_Calls + 1)
          /\ (lateCalls = 2 /\ pc \in {"retry", "sleep"}
                => C7_Registered /\ CountOp(events, "send") = 1)
          /\ (lateCalls > 0 => C4_Due)
          /\ (lateCalls > 0 /\ pc = "exited" => exitCode = 0))
    /\ [][lateCalls > 0 /\ pc = "top" /\ pc' # pc
            => pc' = "exited" /\ exitCode' = 0 /\ lateCalls' = lateCalls]_vars
C19_Witness ==
    /\ lateCalls = 2
    /\ ExitedBy("killdate")
    /\ Initial
    /\ KillDate = NatZ(3)

\* C20: when every Transport call and every sleep returns, Run terminates
\* unless Transport calls succeed again and again: if from some point on no
\* call succeeds, the process exits, and for maxRetry >= 1 no more than
\* maxRetry attempts in a row ever fail; and once killDate != 0 and
\* now >= killDate, the process exits.
C20_Success ==
    \/ C16_Registered(events') = C16_Registered(events) + 1
    \/ C14_Successes(events') = C14_Successes(events) + 1
C20_Termination ==
    /\ (<>[][~C20_Success]_vars) => <>(pc = "exited")
    /\ [](pc # "new" /\ ZLeq(NatZ(1), MaxRetry) => ZLeq(NatZ(consec), MaxRetry))
    /\ C4_Due ~> (pc = "exited")
C20_Witness ==
    /\ ExitedBy("retry")
    /\ MaxRetry = NatZ(2)
    /\ consec = 2
    /\ sCheckIn # -1
    /\ KillDate = ZZero

====
